---- MODULE Spec2Model ----
(***************************************************************************)
(* Model of the mctest protocol engine (src/src/minecraft_client/mcp.rs):  *)
(* the login / configuration / play sequence of Mcp764Connection::connect, *)
(* write_packet and read_packet with their locks, and the two play-phase   *)
(* pump threads.  The server is the environment: every frame it may send   *)
(* is chosen nondeterministically when a read completes.                   *)
(*                                                                         *)
(* Strings are sequences of one-character strings.  A payload is a         *)
(* sequence of typed fields; reading a field of the wrong type, or past    *)
(* the end of the payload, is the format error of the byte-level reader.   *)
(***************************************************************************)
EXTENDS Integers, Sequences, FiniteSets, TLC

\* ------------------------------------------------------------- bounds
\* calls of write and flush on the Chat Bridge
MaxCalls == 3
\* calls of read on the Chat Bridge
MaxReads == 2
\* lines the peer sends to the Chat Bridge's reader
MaxPush == 2
\* frames the server sends over the whole run
MaxRecv == 4
\* lines the caller places on the outbound chat queue over the whole run
MaxLines == 1

\* ------------------------------------------------------------- State
Handshaking == "Handshaking"
Login == "Login"
Configuration == "Configuration"
Play == "Play"

State == {Handshaking, Login, Configuration, Play}

\* position of a phase in the order Handshaking < Login < Configuration < Play
StateOrd(s) ==
    CASE s = Handshaking -> 0
      [] s = Login -> 1
      [] s = Configuration -> 2
      [] s = Play -> 3

\* ------------------------------------------------------------- strings
Kicked == <<"k", "i", "c", "k", "e", "d">>
Hello == <<"H", "e", "l", "l", "o">>
Hi == <<"h", "i">>

ChatLimit == 256
TextLimit == 262144
LongText == [i \in 1..ChatLimit |-> "x"]

\* mutant of TryFromOk: a string of MAX_LENGTH bytes is accepted
TryFromOkAt(inner, max_length) == ~(Len(inner) > max_length)

\* MinecraftString::<MAX_LENGTH>::try_from: Ok iff len < MAX_LENGTH
TryFromOk(inner, max_length) == ~(Len(inner) >= max_length)

\* ------------------------------------------------------------- packets
\* ServerBoundPacket values; every record has the same fields
SB(type, id, text, next) == [type |-> type, id |-> id, text |-> text, next |-> next]

Handshake(next_state) == SB("Handshake", 0, <<>>, next_state)
LoginStart == SB("LoginStart", 0, <<>>, "")
LoginAcknowledged == SB("LoginAcknowledged", 0, <<>>, "")
KeepAliveSB(id) == SB("KeepAlive", id, <<>>, "")
FinishConfigurationSB == SB("FinishConfiguration", 0, <<>>, "")
ClientInformation == SB("ClientInformation", 0, <<"e", "n", "_", "G", "B">>, "")
\* id carries message_count, which the pump always sets to 0
ChatMessage(message) == SB("ChatMessage", 0, message, "")
ChatCommand(command) == SB("ChatCommand", 0, command, "")
MessageAcknowledgment == SB("MessageAcknowledgment", 0, <<>>, "")
NoPacket == SB("None", 0, <<>>, "")

\* the value standing for unimplemented!() in packet_id
Unimplemented == -1

\* mutant of packet_id: KeepAlive has the id of Configuration in every state
packet_id_flat(packet, state) ==
    CASE packet.type = "Handshake" -> 0
      [] packet.type = "LoginStart" -> 0
      [] packet.type = "LoginAcknowledged" -> 3
      [] packet.type = "KeepAlive" -> 3
      [] packet.type = "FinishConfiguration" -> 2
      [] packet.type = "ClientInformation" ->
            (CASE state = Configuration -> 0
               [] state = Play -> 9
               [] OTHER -> Unimplemented)
      [] packet.type = "ChatMessage" -> 5
      [] packet.type = "ChatCommand" -> 4
      [] packet.type = "MessageAcknowledgment" -> 3

packet_id(packet, state) ==
    CASE packet.type = "Handshake" -> 0
      [] packet.type = "LoginStart" -> 0
      [] packet.type = "LoginAcknowledged" -> 3
      [] packet.type = "KeepAlive" ->
            (CASE state = Configuration -> 3
               [] state = Play -> 20
               [] OTHER -> Unimplemented)
      [] packet.type = "FinishConfiguration" -> 2
      [] packet.type = "ClientInformation" ->
            (CASE state = Configuration -> 0
               [] state = Play -> 9
               [] OTHER -> Unimplemented)
      [] packet.type = "ChatMessage" -> 5
      [] packet.type = "ChatCommand" -> 4
      [] packet.type = "MessageAcknowledgment" -> 3

\* mutants of state_changer
\* the default arm resets the state instead of keeping it
state_changer_reset(packet, state) ==
    CASE packet.type = "Handshake" -> packet.next
      [] packet.type = "LoginAcknowledged" -> Configuration
      [] packet.type = "FinishConfiguration" -> Play
      [] OTHER -> Handshaking

\* FinishConfiguration falls into the default arm
state_changer_nofinish(packet, state) ==
    CASE packet.type = "Handshake" -> packet.next
      [] packet.type = "LoginAcknowledged" -> Configuration
      [] OTHER -> state

\* LoginAcknowledged names the wrong phase
state_changer_ackplay(packet, state) ==
    CASE packet.type = "Handshake" -> packet.next
      [] packet.type = "LoginAcknowledged" -> Play
      [] packet.type = "FinishConfiguration" -> Play
      [] OTHER -> state

\* KeepAlive is given a transition of its own
state_changer_keepalive(packet, state) ==
    CASE packet.type = "Handshake" -> packet.next
      [] packet.type = "LoginAcknowledged" -> Configuration
      [] packet.type = "FinishConfiguration" -> Play
      [] packet.type = "KeepAlive" -> Configuration
      [] OTHER -> state

state_changer(packet, state) ==
    CASE packet.type = "Handshake" -> packet.next
      [] packet.type = "LoginAcknowledged" -> Configuration
      [] packet.type = "FinishConfiguration" -> Play
      [] OTHER -> state

\* ------------------------------------------------------------- inbound
\* payload fields
Fld(t, n, s) == [t |-> t, n |-> n, s |-> s]
FLong(n) == Fld("long", n, <<>>)
FStr(s) == Fld("str", 0, s)
FUuid == Fld("uuid", 0, <<>>)
FVarInt(n) == Fld("varint", n, <<>>)
FBool(b) == Fld("bool", b, <<>>)
FSig == Fld("sig", 0, <<>>)

\* ClientBoundPacket values
CB(type, packet_id_, id, text) ==
    [type |-> type, packet_id |-> packet_id_, id |-> id, text |-> text]
NoCB == CB("None", 0, 0, <<>>)

Res(ok, pkt) == [ok |-> ok, pkt |-> pkt]
FormatErr == Res(FALSE, NoCB)

\* a field of type t is at position i of the payload
Has(payload, i, t) == Len(payload) >= i /\ payload[i].t = t

\* read_minecraft_string::<MAX_LENGTH> at position i succeeds
HasStr(payload, i, max_length) ==
    Has(payload, i, "str") /\ TryFromOk(payload[i].s, max_length)

\* the (State::Play, 0x37) branch of ClientBoundPacket::from
FromPlayerChat(payload) ==
    IF ~(Has(payload, 1, "uuid") /\ Has(payload, 2, "varint") /\ Has(payload, 3, "bool"))
    THEN FormatErr
    ELSE LET sig == payload[3].n # 0
             o == IF sig THEN 1 ELSE 0
         IN  IF sig /\ ~Has(payload, 4, "sig") THEN FormatErr
             ELSE IF HasStr(payload, 4 + o, ChatLimit)
                     /\ Has(payload, 5 + o, "long")
                     /\ Has(payload, 6 + o, "long")
                     /\ Has(payload, 7 + o, "varint")
                  THEN Res(TRUE, CB("PlayerChatMessage", 55, 0, payload[4 + o].s))
                  ELSE FormatErr

\* mutant of ClientBoundFrom: an unmodelled packet must have an empty payload
ClientBoundFromEmpty(state, pid, payload) ==
    CASE (state = Login /\ pid = 0) \/ (state = Configuration /\ pid = 1)
            \/ (state = Play /\ pid = 27) ->
            IF HasStr(payload, 1, TextLimit)
            THEN Res(TRUE, CB("Disconnect", pid, 0, payload[1].s))
            ELSE FormatErr
      [] state = Login /\ pid = 2 -> Res(TRUE, CB("LoginSuccess", pid, 0, <<>>))
      [] state = Configuration /\ pid = 2 ->
            Res(TRUE, CB("FinishConfiguration", pid, 0, <<>>))
      [] (state = Configuration /\ pid = 3) \/ (state = Play /\ pid = 36) ->
            IF Has(payload, 1, "long")
            THEN Res(TRUE, CB("KeepAlive", pid, payload[1].n, <<>>))
            ELSE FormatErr
      [] state = Play /\ pid = 55 -> FromPlayerChat(payload)
      [] state = Play /\ pid = 103 ->
            IF HasStr(payload, 1, TextLimit)
            THEN Res(TRUE, CB("SystemChatMessage", pid, 0, payload[1].s))
            ELSE FormatErr
      [] OTHER -> IF payload = <<>> THEN Res(TRUE, CB("Unknown", pid, 0, <<>>)) ELSE FormatErr

\* ClientBoundPacket::from(state, packet_id, payload)
ClientBoundFrom(state, pid, payload) ==
    CASE (state = Login /\ pid = 0) \/ (state = Configuration /\ pid = 1)
            \/ (state = Play /\ pid = 27) ->
            IF HasStr(payload, 1, TextLimit)
            THEN Res(TRUE, CB("Disconnect", pid, 0, payload[1].s))
            ELSE FormatErr
      [] state = Login /\ pid = 2 -> Res(TRUE, CB("LoginSuccess", pid, 0, <<>>))
      [] state = Configuration /\ pid = 2 ->
            Res(TRUE, CB("FinishConfiguration", pid, 0, <<>>))
      [] (state = Configuration /\ pid = 3) \/ (state = Play /\ pid = 36) ->
            IF Has(payload, 1, "long")
            THEN Res(TRUE, CB("KeepAlive", pid, payload[1].n, <<>>))
            ELSE FormatErr
      [] state = Play /\ pid = 55 -> FromPlayerChat(payload)
      [] state = Play /\ pid = 103 ->
            IF HasStr(payload, 1, TextLimit)
            THEN Res(TRUE, CB("SystemChatMessage", pid, 0, payload[1].s))
            ELSE FormatErr
      [] OTHER -> Res(TRUE, CB("Unknown", pid, 0, <<>>))

\* ------------------------------------------------------------- inputs
\* long ids a KeepAlive may carry
KeepAliveIds == {1, 2}

\* payload of a well-formed PlayerChatMessage without signature
PlayerChatPayload(message) ==
    <<FUuid, FVarInt(0), FBool(0), FStr(message), FLong(0), FLong(0), FVarInt(0)>>

Frame(pid, payload) == [pid |-> pid, payload |-> payload]

\* a frame whose leading packet-id VarInt cannot be read
BadFrame == Frame(-1, <<>>)

\* the frames the server may send
ServerFrames ==
    {Frame(0, <<FStr(Kicked)>>), Frame(1, <<FStr(Kicked)>>), Frame(27, <<FStr(Kicked)>>),
     Frame(2, <<>>), Frame(2, <<FStr(Hello)>>),
     Frame(3, <<>>), Frame(127, <<>>),
     Frame(55, PlayerChatPayload(Hi)), Frame(103, <<FStr(Hello)>>),
     BadFrame}
    \cup {Frame(3, <<FLong(k)>>) : k \in KeepAliveIds}
    \cup {Frame(36, <<FLong(k)>>) : k \in KeepAliveIds}

\* the names connect may be given: of 15, 16 and 17 bytes
NameLimit == 16
PlayerNames == {[i \in 1..n |-> "n"] : n \in (NameLimit - 1)..(NameLimit + 1)}
\* MinecraftString<16> of ClientInformation.locale
LocaleLimit == 16

\* the lines the caller may place on the outbound chat queue
Lines == {<<>>, Hi, <<"/", "s", "a", "y">>, LongText, <<"/">> \o LongText}

\* ------------------------------------------------------------- errors
NoErr == <<>>
IoErr == <<"io">>
FormatError == <<"format">>
ValidationError == <<"validation">>
LoginFailed == <<"Login failed.">>
Disconnected(reason) == <<"Disconnected by server. ">> \o reason
\* RecvError / SendError of a channel whose other end was dropped
ChannelClosed == <<"channel closed">>
\* io::ErrorKind::ConnectionReset, which the bridge makes of both
ConnectionReset == <<"connection reset">>

\* ------------------------------------------------------------- state
VARIABLES
    state,        \* Mcp764.state
    stateLock,    \* owner of the Mutex around Mcp764.state
    tcpLock,      \* owner of the Mutex around Mcp764.tcp_stream
    mcpLock,      \* owner of the Mutex around the Mcp764 shared by the pumps
    sockOk,       \* no read or write of the TCP stream has failed yet
    pc,           \* position of each thread
    step,         \* position of each thread inside write_packet / read_packet
    wid,          \* write_packet: the packet id computed under the state lock
    wst,          \* write_packet: the state the id was computed from
    frame,        \* read_packet: the frame read from the socket
    pkt,          \* the packet last returned by read_packet to each thread
    text,         \* outbound pump: the line taken from the queue
    err,          \* the error each thread returned
    player_name,  \* connect's player_name
    outQ,         \* outbound chat queue (caller -> outbound pump)
    inQ,          \* inbound chat queue (inbound pump -> caller)
    wire,         \* history: the pieces connect wrote to the socket, then those
                  \* of the last frame a pump wrote and of any frame cut short
    rcvd,         \* history: the types of the recognised packets read_packet returned
    stateHist,    \* history: the values state has taken
    lastRead,     \* history: who decoded the last packet, in which state, as what
    fn,           \* inputs and results of the packet functions applied on their own
    con,          \* the Chat Bridge object: its write_buffer, and whether it was split
    call,         \* the last write or flush of the bridge: its bytes and its result
    rd,           \* the read of the bridge in progress or last returned
    nb,           \* bridge calls made and lines sent by the peer so far
    hist,         \* history: the lines sent to the bridge's reader, the bytes
                  \* its reads have returned, the bytes its writes have taken
                  \* with a newline for each flush that sent a line, and
                  \* whether a write or flush has failed
    nRecv,        \* frames read so far
    nLines        \* lines enqueued so far

vars == <<state, stateLock, tcpLock, mcpLock, sockOk, pc, step, wid, wst, frame,
          pkt, text, err, player_name, outQ, inQ, wire, rcvd, stateHist, lastRead, fn,
          con, call, rd, nb, hist, nRecv, nLines>>

Threads == {"main", "in", "out"}
NoFrame == Frame(0, <<>>)
Pumps == {"in", "out"}
None == "none"

\* mutant of Free: lock() returns at once, whoever holds the lock
FreeAlways(owner) == TRUE

\* Mutex::lock returns once nobody holds the lock
Free(owner) == owner = None

\* io::Result values of the bridge: Ok(n) or Err(kind)
Ret(ok, n, kind) == [ok |-> ok, n |-> n, kind |-> kind]
Ok(n) == Ret(TRUE, n, "")
Err(kind) == Ret(FALSE, 0, kind)
NoRet == Ret(FALSE, 0, "none")

\* Connection::new: an empty write_buffer
NewConnection == [write_buffer |-> <<>>, split |-> FALSE]
NoCall == [op |-> "none", buf |-> <<>>, ret |-> NoRet]
\* no read under way
NoReading == [pc |-> "idle", cap |-> 0, cursor |-> <<>>, taken |-> <<>>, ret |-> NoRet]

\* nothing decoded yet
NoRead == [by |-> None, st |-> Handshaking, type |-> "None"]
\* no function applied
NoFn == [packet |-> NoPacket, state |-> Handshaking, applied |-> FALSE,
         id |-> 0, next |-> Handshaking]

\* the engine's objects and the queues as they are created
InitObjects ==
    /\ state = Handshaking
    /\ stateLock = None
    /\ tcpLock = None
    /\ mcpLock = None
    /\ sockOk = TRUE
    /\ step = [t \in Threads |-> "call"]
    /\ wid = [t \in Threads |-> 0]
    /\ wst = [t \in Threads |-> Handshaking]
    /\ frame = [t \in Threads |-> NoFrame]
    /\ pkt = [t \in Threads |-> NoCB]
    /\ text = <<>>
    /\ err = [t \in Threads |-> NoErr]
    /\ outQ = <<>>
    /\ inQ = <<>>
    /\ wire = <<>>
    /\ rcvd = {}
    /\ stateHist = <<Handshaking>>
    /\ lastRead = NoRead
    /\ con = NewConnection
    /\ call = NoCall
    /\ rd = NoReading
    /\ nb = [calls |-> 0, reads |-> 0, pushes |-> 0]
    /\ hist = [pushed |-> <<>>, got |-> <<>>, written |-> <<>>, failed |-> FALSE]
    /\ nRecv = 0
    /\ nLines = 0

\* connect is entered with a player name
InitProgram ==
    /\ InitObjects
    /\ pc = [t \in Threads |-> IF t = "main" THEN "m_handshake" ELSE "unborn"]
    /\ player_name \in PlayerNames

Init == InitProgram /\ fn = NoFn

\* ------------------------------------------------------------- helpers
ErrLabel(t) == CASE t = "main" -> "m_err" [] t = "in" -> "i_err" [] t = "out" -> "o_err"

WriteLabels == {"m_handshake", "m_loginstart", "m_loginack", "m_cfgka", "m_clientinfo",
                "m_finish", "i_ka", "o_send"}
ReadLabels == {"m_readlogin", "m_cfgread", "i_read"}

\* mutant of PendingPacket: a command keeps its leading "/"
PendingPacketSlash(t) ==
    CASE pc[t] = "m_handshake" -> Handshake(Login)
      [] pc[t] = "m_loginstart" -> LoginStart
      [] pc[t] = "m_loginack" -> LoginAcknowledged
      [] pc[t] = "m_cfgka" -> KeepAliveSB(pkt[t].id)
      [] pc[t] = "m_clientinfo" -> ClientInformation
      [] pc[t] = "m_finish" -> FinishConfigurationSB
      [] pc[t] = "i_ka" -> KeepAliveSB(pkt[t].id)
      [] pc[t] = "o_send" ->
            IF Len(text) > 0 /\ Head(text) = "/"
            THEN ChatCommand(text)
            ELSE ChatMessage(text)
      [] OTHER -> NoPacket

\* the packet each write_packet call site passes
PendingPacket(t) ==
    CASE pc[t] = "m_handshake" -> Handshake(Login)
      [] pc[t] = "m_loginstart" -> LoginStart
      [] pc[t] = "m_loginack" -> LoginAcknowledged
      [] pc[t] = "m_cfgka" -> KeepAliveSB(pkt[t].id)
      [] pc[t] = "m_clientinfo" -> ClientInformation
      [] pc[t] = "m_finish" -> FinishConfigurationSB
      [] pc[t] = "i_ka" -> KeepAliveSB(pkt[t].id)
      [] pc[t] = "o_send" ->
            IF Len(text) > 0 /\ Head(text) = "/"
            THEN ChatCommand(Tail(text))
            ELSE ChatMessage(text)
      [] OTHER -> NoPacket

\* mutant of AfterWrite: connect goes on to play right after login
AfterWriteEarly(label) ==
    CASE label = "m_handshake" -> "m_loginstart"
      [] label = "m_loginstart" -> "m_readlogin"
      [] label = "m_loginack" -> "m_play"
      [] label = "m_cfgka" -> "m_cfgread"
      [] label = "m_clientinfo" -> "m_finish"
      [] label = "m_finish" -> "m_play"
      [] label = "i_ka" -> "i_loop"
      [] label = "o_send" -> "o_loop"

\* mutant of AfterWrite: login sends ClientInformation right after LoginStart
AfterWriteInfo(label) ==
    CASE label = "m_handshake" -> "m_loginstart"
      [] label = "m_loginstart" -> "m_clientinfo"
      [] label = "m_loginack" -> "m_cfgread"
      [] label = "m_cfgka" -> "m_cfgread"
      [] label = "m_clientinfo" -> "m_readlogin"
      [] label = "m_finish" -> "m_play"
      [] label = "i_ka" -> "i_loop"
      [] label = "o_send" -> "o_loop"

\* where each call site continues after write_packet returned Ok
AfterWrite(label) ==
    CASE label = "m_handshake" -> "m_loginstart"
      [] label = "m_loginstart" -> "m_readlogin"
      [] label = "m_loginack" -> "m_cfgread"
      [] label = "m_cfgka" -> "m_cfgread"
      [] label = "m_clientinfo" -> "m_finish"
      [] label = "m_finish" -> "m_play"
      [] label = "i_ka" -> "i_loop"
      [] label = "o_send" -> "o_loop"

\* mutant of LoginMatch: the reply is not looked at
LoginMatchAny(packet) == "m_loginack"

\* login: the reply to LoginStart
LoginMatch(packet) ==
    IF packet.type = "LoginSuccess" THEN "m_loginack" ELSE "m_err"

\* mutant of ConfigureMatch: a KeepAlive is skipped like an unmatched packet
ConfigureMatchSkipKa(packet) ==
    CASE packet.type = "Disconnect" -> "m_err"
      [] packet.type = "FinishConfiguration" -> "m_clientinfo"
      [] OTHER -> "m_cfgread"

\* mutant of ConfigureMatch: any unmatched packet ends the loop
ConfigureMatchBreak(packet) ==
    CASE packet.type = "Disconnect" -> "m_err"
      [] packet.type = "FinishConfiguration" -> "m_clientinfo"
      [] packet.type = "KeepAlive" -> "m_cfgka"
      [] OTHER -> "m_clientinfo"

\* configure: the match on each packet of the loop
ConfigureMatch(packet) ==
    CASE packet.type = "Disconnect" -> "m_err"
      [] packet.type = "FinishConfiguration" -> "m_clientinfo"
      [] packet.type = "KeepAlive" -> "m_cfgka"
      [] OTHER -> "m_cfgread"

\* mutant of PlayMatch: an unknown packet is pushed to the chat queue
PlayMatchPushAll(packet) ==
    CASE packet.type = "Disconnect" -> "i_err"
      [] packet.type = "KeepAlive" -> "i_ka_lock"
      [] OTHER -> "i_push"

\* mutant of PlayMatch: a Disconnect is skipped and the loop goes on
PlayMatchOn(packet) ==
    CASE packet.type = "KeepAlive" -> "i_ka_lock"
      [] packet.type = "PlayerChatMessage" -> "i_push"
      [] packet.type = "SystemChatMessage" -> "i_push"
      [] OTHER -> "i_loop"

\* play, inbound pump: the match on each packet of the loop
PlayMatch(packet) ==
    CASE packet.type = "Disconnect" -> "i_err"
      [] packet.type = "KeepAlive" -> "i_ka_lock"
      [] packet.type = "PlayerChatMessage" -> "i_push"
      [] packet.type = "SystemChatMessage" -> "i_push"
      [] OTHER -> "i_loop"

AfterRead(label, packet) ==
    CASE label = "m_readlogin" -> LoginMatch(packet)
      [] label = "m_cfgread" -> ConfigureMatch(packet)
      [] label = "i_read" -> PlayMatch(packet)

\* the error a call site returns for the packet it matched
MatchErr(label, packet) ==
    CASE label = "m_readlogin" /\ LoginMatch(packet) = "m_err" -> LoginFailed
      [] label = "m_cfgread" /\ ConfigureMatch(packet) = "m_err" -> Disconnected(packet.text)
      [] label = "i_read" /\ PlayMatch(packet) = "i_err" -> Disconnected(packet.text)
      [] OTHER -> NoErr

\* mutant of Unlock: a guard outlives the call
UnlockKeep(owner, t) == owner

\* the guards a thread drops when its call returns
Unlock(owner, t) == IF owner = t THEN None ELSE owner

\* a thread leaves write_packet / read_packet with an error: its guards and
\* locals are dropped and the error propagates through `?`
Fail(t, e) ==
    /\ pc' = [pc EXCEPT ![t] = ErrLabel(t)]
    /\ step' = [step EXCEPT ![t] = "call"]
    /\ err' = [err EXCEPT ![t] = e]
    /\ wid' = [wid EXCEPT ![t] = 0]
    /\ wst' = [wst EXCEPT ![t] = Handshaking]
    /\ frame' = [frame EXCEPT ![t] = NoFrame]
    /\ pkt' = [pkt EXCEPT ![t] = NoCB]
    /\ text' = IF t = "out" THEN <<>> ELSE text
    /\ stateLock' = Unlock(stateLock, t)
    /\ tcpLock' = Unlock(tcpLock, t)
    /\ mcpLock' = Unlock(mcpLock, t)

\* ------------------------------------------------------------- write_packet
Piece(part, t, packet, pid) == [part |-> part, by |-> t, pkt |-> packet, pid |-> pid]

\* name: MinecraftString::try_from(player_name)? before LoginStart is built
NameOk(t) == pc[t] = "m_loginstart" => TryFromOk(player_name, NameLimit)

\* self.state.lock(); packet.packet_id(*state); packet.payload().
\* unimplemented!() panics: the thread unwinds and its guards are dropped.
WLock(t) ==
    /\ pc[t] \in WriteLabels /\ step[t] = "call"
    /\ NameOk(t)
    /\ Free(stateLock)
    /\ LET id == packet_id(PendingPacket(t), state)
       IN  IF id = Unimplemented
           THEN /\ pc' = [pc EXCEPT ![t] = "panic"]
                /\ mcpLock' = Unlock(mcpLock, t)
                /\ UNCHANGED <<stateLock, wid, wst, step>>
           ELSE /\ stateLock' = t
                /\ wid' = [wid EXCEPT ![t] = id]
                /\ wst' = [wst EXCEPT ![t] = state]
                /\ step' = [step EXCEPT ![t] = "locked"]
                /\ UNCHANGED <<pc, mcpLock>>
    /\ UNCHANGED <<fn, con, call, rd, nb, hist, lastRead, state, tcpLock, sockOk, frame, pkt, text, err,
                   player_name, outQ, inQ, wire, rcvd, stateHist, nRecv, nLines>>

\* login: MinecraftString::try_from(player_name)? fails
NameTooLong(t) ==
    /\ pc[t] = "m_loginstart" /\ step[t] = "call"
    /\ ~TryFromOk(player_name, NameLimit)
    /\ Fail(t, ValidationError)
    /\ UNCHANGED <<fn, con, call, rd, nb, hist, lastRead, state, sockOk, player_name, outQ, inQ,
                   wire, rcvd, stateHist, nRecv, nLines>>

\* the history a new frame is appended to: a whole frame of a pump that lies
\* at its end makes room for the next one
Kept(t) ==
    IF /\ t \in Pumps
       /\ Len(wire) >= 2
       /\ wire[Len(wire)].part = "body"
       /\ wire[Len(wire)].by \in Pumps
       /\ wire[Len(wire) - 1].part = "len"
    THEN SubSeq(wire, 1, Len(wire) - 2)
    ELSE wire

\* self.tcp_stream.lock(); tcp_stream.write_var_int(len)
WPrefix(t) ==
    /\ pc[t] \in WriteLabels /\ step[t] = "locked"
    /\ Free(tcpLock)
    /\ sockOk
    /\ tcpLock' = t
    /\ wire' = Append(Kept(t), Piece("len", t, PendingPacket(t), wid[t]))
    /\ step' = [step EXCEPT ![t] = "prefix"]
    /\ UNCHANGED <<fn, con, call, rd, nb, hist, lastRead, state, stateLock, mcpLock, sockOk, pc, wid, wst, frame, pkt, text, err,
                   player_name, outQ, inQ, rcvd, stateHist, nRecv, nLines>>

\* tcp_stream.write(&buffer); *state = change_state(*state); Ok(()).
\* The guards and the packet are dropped on return.
WBody(t) ==
    /\ pc[t] \in WriteLabels /\ step[t] = "prefix"
    /\ sockOk
    /\ wire' = Append(wire, Piece("body", t, PendingPacket(t), wid[t]))
    /\ state' = state_changer(PendingPacket(t), state)
    /\ stateHist' = IF state' = state THEN stateHist ELSE Append(stateHist, state')
    /\ pc' = [pc EXCEPT ![t] = AfterWrite(pc[t])]
    /\ step' = [step EXCEPT ![t] = "call"]
    /\ wid' = [wid EXCEPT ![t] = 0]
    /\ wst' = [wst EXCEPT ![t] = Handshaking]
    /\ pkt' = [pkt EXCEPT ![t] = NoCB]
    /\ text' = IF t = "out" THEN <<>> ELSE text
    /\ stateLock' = Unlock(stateLock, t)
    /\ tcpLock' = Unlock(tcpLock, t)
    /\ mcpLock' = Unlock(mcpLock, t)
    /\ UNCHANGED <<fn, con, call, rd, nb, hist, lastRead, sockOk, frame, err, player_name, outQ, inQ, rcvd, nRecv, nLines>>

\* a write to the socket fails: tcp_stream.write_var_int(..)? or
\* tcp_stream.write(..)? returns the error, as does every later read or write
WFail(t) ==
    /\ pc[t] \in WriteLabels
    /\ \/ step[t] = "locked" /\ Free(tcpLock)
       \/ step[t] = "prefix"
    /\ sockOk' = FALSE
    /\ Fail(t, IoErr)
    /\ UNCHANGED <<fn, con, call, rd, nb, hist, lastRead, state, player_name, outQ, inQ,
                   wire, rcvd, stateHist, nRecv, nLines>>

\* ------------------------------------------------------------- read_packet
\* self.tcp_stream.lock()
RLock(t) ==
    /\ pc[t] \in ReadLabels /\ step[t] = "call"
    /\ Free(tcpLock)
    /\ tcpLock' = t
    /\ step' = [step EXCEPT ![t] = "locked"]
    /\ UNCHANGED <<fn, con, call, rd, nb, hist, lastRead, state, stateLock, mcpLock, sockOk, pc, wid, wst, frame, pkt, text, err,
                   player_name, outQ, inQ, wire, rcvd, stateHist, nRecv, nLines>>

\* read_var_int + read_exact: one frame arrives from the server
RFrame(t) ==
    /\ pc[t] \in ReadLabels /\ step[t] = "locked"
    /\ sockOk
    /\ nRecv < MaxRecv
    /\ \E f \in ServerFrames : frame' = [frame EXCEPT ![t] = f]
    /\ nRecv' = nRecv + 1
    /\ step' = [step EXCEPT ![t] = "framed"]
    /\ UNCHANGED <<fn, con, call, rd, nb, hist, lastRead, state, stateLock, tcpLock, mcpLock, sockOk, pc, wid, wst, pkt, text, err,
                   player_name, outQ, inQ, wire, rcvd, stateHist, nLines>>

\* the read from the socket fails: read_var_int()? or read_exact(..)? returns
\* the error, as does every later read or write
RFail(t) ==
    /\ pc[t] \in ReadLabels /\ step[t] = "locked"
    /\ sockOk' = FALSE
    /\ Fail(t, IoErr)
    /\ UNCHANGED <<fn, con, call, rd, nb, hist, lastRead, state, player_name, outQ, inQ,
                   wire, rcvd, stateHist, nRecv, nLines>>

\* content.read_var_int()? on the frame's packet id fails
RBadId(t) ==
    /\ pc[t] \in ReadLabels /\ step[t] = "framed"
    /\ frame[t] = BadFrame
    /\ Fail(t, FormatError)
    /\ UNCHANGED <<fn, con, call, rd, nb, hist, lastRead, state, sockOk, player_name, outQ, inQ,
                   wire, rcvd, stateHist, nRecv, nLines>>

\* the caller's match arm returns an error, or keeps the packet it needs
Matched(t, packet) ==
    IF MatchErr(pc[t], packet) # NoErr
    THEN Fail(t, MatchErr(pc[t], packet))
    ELSE /\ pc' = [pc EXCEPT ![t] = AfterRead(pc[t], packet)]
         /\ pkt' = [pkt EXCEPT ![t] =
                       IF AfterRead(pc[t], packet) \in {"m_cfgka", "i_ka_lock", "i_push"}
                       THEN packet ELSE NoCB]
         /\ step' = [step EXCEPT ![t] = "call"]
         /\ frame' = [frame EXCEPT ![t] = NoFrame]
         /\ stateLock' = Unlock(stateLock, t)
         /\ tcpLock' = Unlock(tcpLock, t)
         /\ mcpLock' = Unlock(mcpLock, t)
         /\ UNCHANGED <<err, wid, wst, text>>

\* ClientBoundPacket::from(*self.state.lock(), packet_id, &payload), and the
\* caller's match on the result
RDecode(t) ==
    /\ pc[t] \in ReadLabels /\ step[t] = "framed"
    /\ frame[t] # BadFrame
    /\ Free(stateLock)
    /\ LET r == ClientBoundFrom(state, frame[t].pid, frame[t].payload)
       IN  IF ~r.ok
           THEN /\ Fail(t, FormatError)
                /\ UNCHANGED <<rcvd, lastRead>>
           ELSE /\ rcvd' = IF r.pkt.type = "Unknown" THEN rcvd ELSE rcvd \cup {r.pkt.type}
                /\ lastRead' = [by |-> t, st |-> state, type |-> r.pkt.type]
                /\ Matched(t, r.pkt)
    /\ UNCHANGED <<fn, con, call, rd, nb, hist, state, sockOk, player_name, outQ, inQ, wire, stateHist,
                   nRecv, nLines>>

\* ------------------------------------------------------------- connect / play
\* play: both pump threads are spawned, then Ok(Mcp764Connection) is returned
MainPlay ==
    /\ pc["main"] = "m_play"
    /\ pc' = [pc EXCEPT !["main"] = "m_done", !["in"] = "i_loop", !["out"] = "o_loop"]
    /\ UNCHANGED <<fn, con, call, rd, nb, hist, lastRead, state, stateLock, tcpLock, mcpLock, sockOk, step, wid, wst, frame, pkt,
                   text, err, player_name, outQ, inQ, wire, rcvd, stateHist, nRecv, nLines>>

\* mutant of InLoop: read_packet is called without the connection-wide lock
InLoopBare ==
    /\ pc["in"] = "i_loop"
    /\ pc' = [pc EXCEPT !["in"] = "i_read"]
    /\ UNCHANGED <<fn, con, call, rd, nb, hist, lastRead, state, stateLock, tcpLock, mcpLock, sockOk, step, wid, wst, frame, pkt,
                   text, err, player_name, outQ, inQ, wire, rcvd, stateHist, nRecv, nLines>>

\* inbound pump: while *run.read() { mcp.lock().read_packet() ...
InLoop ==
    /\ pc["in"] = "i_loop"
    /\ Free(mcpLock)
    /\ mcpLock' = "in"
    /\ pc' = [pc EXCEPT !["in"] = "i_read"]
    /\ UNCHANGED <<fn, con, call, rd, nb, hist, lastRead, state, stateLock, tcpLock, sockOk, step, wid, wst, frame, pkt,
                   text, err, player_name, outQ, inQ, wire, rcvd, stateHist, nRecv, nLines>>

\* inbound pump, KeepAlive arm: mcp.lock() before write_packet
InKaLock ==
    /\ pc["in"] = "i_ka_lock"
    /\ Free(mcpLock)
    /\ mcpLock' = "in"
    /\ pc' = [pc EXCEPT !["in"] = "i_ka"]
    /\ UNCHANGED <<fn, con, call, rd, nb, hist, lastRead, state, stateLock, tcpLock, sockOk, step, wid, wst, frame, pkt,
                   text, err, player_name, outQ, inQ, wire, rcvd, stateHist, nRecv, nLines>>

\* a pump thread has left its loop
PumpExited(t) == pc[t] \in {"i_err", "o_err", "panic"}

\* the inbound pump's closure is gone, and with it the only sender of the
\* inbound queue
ProducerGone == PumpExited("in")
\* mutant of ConsumerGone: the receiver outlives the outbound pump
ConsumerStays == FALSE
\* the outbound pump's closure is gone, and with it the receiver of the
\* outbound queue
ConsumerGone == PumpExited("out")

\* the caller still holds the Connection (or both halves of it)
HandleHeld == pc["main"] = "m_done"
\* the caller has dropped every handle, and with them its ends of both queues
HandleDropped == pc["main"] = "m_dropped"

\* inbound pump, chat arms: chat_text_sender.send(...)?, which fails once the
\* receiving end of the inbound queue was dropped
InPush ==
    /\ pc["in"] = "i_push"
    /\ pkt' = [pkt EXCEPT !["in"] = NoCB]
    /\ IF HandleDropped
       THEN /\ pc' = [pc EXCEPT !["in"] = "i_err"]
            /\ err' = [err EXCEPT !["in"] = ChannelClosed]
            /\ UNCHANGED inQ
       ELSE /\ inQ' = Append(inQ, pkt["in"].text)
            /\ pc' = [pc EXCEPT !["in"] = "i_loop"]
            /\ UNCHANGED err
    /\ UNCHANGED <<fn, con, call, rd, nb, hist, lastRead, state, stateLock, tcpLock, mcpLock, sockOk, step, wid, wst, frame,
                   text, player_name, outQ, wire, rcvd, stateHist, nRecv, nLines>>

\* outbound pump: let text = chat_text_receiver.recv()?
OutRecv ==
    /\ pc["out"] = "o_loop"
    /\ outQ # <<>>
    /\ text' = Head(outQ)
    /\ outQ' = Tail(outQ)
    /\ pc' = [pc EXCEPT !["out"] = "o_lock"]
    /\ UNCHANGED <<fn, con, call, rd, nb, hist, lastRead, state, stateLock, tcpLock, mcpLock, sockOk, step, wid, wst, frame, pkt,
                   err, player_name, inQ, wire, rcvd, stateHist, nRecv, nLines>>

\* outbound pump: chat_text_receiver.recv()? fails once the queue is empty and
\* its sending end was dropped
OutClosed ==
    /\ pc["out"] = "o_loop"
    /\ outQ = <<>>
    /\ HandleDropped
    /\ pc' = [pc EXCEPT !["out"] = "o_err"]
    /\ err' = [err EXCEPT !["out"] = ChannelClosed]
    /\ UNCHANGED <<fn, con, call, rd, nb, hist, lastRead, state, stateLock, tcpLock, mcpLock, sockOk, step, wid, wst, frame, pkt,
                   text, player_name, outQ, inQ, wire, rcvd, stateHist, nRecv, nLines>>

\* the string the outbound pump hands to MinecraftString::try_from
OutText(line) == IF Len(line) > 0 /\ Head(line) = "/" THEN Tail(line) ELSE line

\* mutant of OutLock: the text is put into the packet whatever its length
OutLockAny ==
    /\ pc["out"] = "o_lock"
    /\ Free(mcpLock)
    /\ mcpLock' = "out"
    /\ pc' = [pc EXCEPT !["out"] = "o_send"]
    /\ UNCHANGED <<fn, con, call, rd, nb, hist, lastRead, state, stateLock, tcpLock, sockOk, step, wid, wst, frame, pkt,
                   text, err, player_name, outQ, inQ, wire, rcvd, stateHist, nRecv, nLines>>

\* outbound pump: let mcp = mcp.lock(); MinecraftString::try_from(...)?
OutLock ==
    /\ pc["out"] = "o_lock"
    /\ Free(mcpLock)
    /\ IF TryFromOk(OutText(text), ChatLimit)
       THEN /\ mcpLock' = "out"
            /\ pc' = [pc EXCEPT !["out"] = "o_send"]
            /\ UNCHANGED <<err, text>>
       ELSE /\ pc' = [pc EXCEPT !["out"] = "o_err"]
            /\ err' = [err EXCEPT !["out"] = ValidationError]
            /\ text' = <<>>
            /\ UNCHANGED mcpLock
    /\ UNCHANGED <<fn, con, call, rd, nb, hist, lastRead, state, stateLock, tcpLock, sockOk, step, wid, wst, frame, pkt,
                   player_name, outQ, inQ, wire, rcvd, stateHist, nRecv, nLines>>

\* ------------------------------------------------------------- environment
\* the caller's bridge enqueues one line: chat_text_sender.send(chat), which
\* fails once the outbound pump has ended and dropped the receiver
ChatSend ==
    /\ HandleHeld
    /\ IF ConsumerGone
       THEN /\ err' = [err EXCEPT !["main"] = ConnectionReset]
            /\ UNCHANGED <<outQ, nLines>>
       ELSE /\ nLines < MaxLines
            /\ \E line \in Lines : outQ' = Append(outQ, line)
            /\ nLines' = nLines + 1
            /\ UNCHANGED err
    /\ UNCHANGED <<fn, con, call, rd, nb, hist, lastRead, state, stateLock, tcpLock, mcpLock, sockOk, pc, step, wid, wst, frame,
                   pkt, text, player_name, inQ, wire, rcvd, stateHist, nRecv>>

\* the caller drops the Connection, or both halves of it: the Mcp764Connection
\* with its clone of `run`, the sender of the outbound queue and the receiver
\* of the inbound queue go; `run` is left true and the pumps keep the socket
Release ==
    /\ HandleHeld
    /\ pc' = [pc EXCEPT !["main"] = "m_dropped"]
    /\ UNCHANGED <<fn, con, call, rd, nb, hist, lastRead, state, stateLock, tcpLock, mcpLock, sockOk, step, wid, wst, frame,
                   pkt, text, err, player_name, outQ, inQ, wire, rcvd, stateHist, nRecv, nLines>>

\* ------------------------------------------------------------- Chat Bridge
NL == "\n"
\* a byte that is not UTF-8
BadByte == "<ff>"

\* std::str::from_utf8(buf) is Ok
Utf8Ok(buf) == \A i \in 1..Len(buf) : buf[i] # BadByte

\* str::split('\n'): the pieces between the newlines, at least one
RECURSIVE Split(_)
Split(s) ==
    IF \A i \in 1..Len(s) : s[i] # NL
    THEN <<s>>
    ELSE LET i == CHOOSE k \in 1..Len(s) : s[k] = NL /\ \A j \in 1..(k - 1) : s[j] # NL
         IN  <<SubSeq(s, 1, i - 1)>> \o Split(SubSeq(s, i + 1, Len(s)))

\* mutant of Leftover: the trailing piece is thrown away
LeftoverNone(chats) == <<>>

\* mutant of Complete: the trailing piece is sent as a line as well
CompleteAll(chats) == chats

\* chats.pop_back(): the piece taken, and the pieces left
Leftover(chats) == chats[Len(chats)]
Complete(chats) == SubSeq(chats, 1, Len(chats) - 1)

\* Connection::write: count += chat.len() + 1 over the lines sent
RECURSIVE CountOf(_)
CountOf(chats) ==
    IF chats = <<>> THEN 0 ELSE Len(Head(chats)) + 1 + CountOf(Tail(chats))

\* the bytes a caller may pass to write
WriteBufs ==
    {<<"a">>, <<NL>>, <<"b", NL>>, <<"a", NL, "b", NL, "c">>, <<BadByte>>}
\* the sizes of the buffer a caller may pass to read
ReadCaps == {2, 3, 5}
\* the lines the peer may send to the reader
PeerLines == {<<"a">>, <<"b", "c">>}

\* &mut self: an unsplit Connection is not written while it is being read
Exclusive == con.split \/ rd.pc = "idle"

\* Connection::write and ConnectionWriteHalf::write, which differ in the
\* number they return; the first send to a queue without receiver fails, after
\* the buffer was replaced by the leftover
write(buf) ==
    /\ nb.calls < MaxCalls
    /\ Exclusive
    /\ nb' = [nb EXCEPT !.calls = @ + 1]
    /\ IF ~Utf8Ok(buf)
       THEN /\ call' = [op |-> "write", buf |-> buf, ret |-> Err("InvalidData")]
            /\ hist' = [hist EXCEPT !.failed = TRUE]
            /\ UNCHANGED <<con, outQ>>
       ELSE LET chats == Split(con.write_buffer \o buf)
                leftover == Leftover(chats)
                count == Len(leftover) + CountOf(Complete(chats))
            IN  /\ con' = [con EXCEPT !.write_buffer = leftover]
                /\ IF Complete(chats) # <<>> /\ ConsumerGone
                   THEN /\ call' = [op |-> "write", buf |-> buf,
                                    ret |-> Err("ConnectionReset")]
                        /\ hist' = [hist EXCEPT !.failed = TRUE]
                        /\ UNCHANGED outQ
                   ELSE /\ outQ' = outQ \o Complete(chats)
                        /\ call' = [op |-> "write", buf |-> buf,
                                    ret |-> Ok(IF con.split THEN Len(buf) ELSE count)]
                        /\ hist' = [hist EXCEPT !.written = @ \o buf]
    /\ UNCHANGED <<fn, rd, lastRead, state, stateLock, tcpLock, mcpLock, sockOk, pc, step,
                   wid, wst, frame, pkt, text, err, player_name, inQ, wire, rcvd, stateHist,
                   nRecv, nLines>>

\* mutant of flush: the buffered line is sent and stays buffered
flush_keep ==
    /\ nb.calls < MaxCalls
    /\ Exclusive
    /\ nb' = [nb EXCEPT !.calls = @ + 1]
    /\ IF con.write_buffer = <<>>
       THEN UNCHANGED <<outQ, hist>>
       ELSE /\ outQ' = Append(outQ, con.write_buffer)
            /\ hist' = [hist EXCEPT !.written = Append(@, NL)]
    /\ call' = [op |-> "flush", buf |-> <<>>, ret |-> Ok(0)]
    /\ UNCHANGED <<fn, con, rd, lastRead, state, stateLock, tcpLock, mcpLock, sockOk, pc,
                   step, wid, wst, frame, pkt, text, err, player_name, inQ, wire, rcvd,
                   stateHist, nRecv, nLines>>

\* Connection::flush and ConnectionWriteHalf::flush
flush ==
    /\ nb.calls < MaxCalls
    /\ Exclusive
    /\ nb' = [nb EXCEPT !.calls = @ + 1]
    /\ IF con.write_buffer = <<>>
       THEN /\ call' = [op |-> "flush", buf |-> <<>>, ret |-> Ok(0)]
            /\ UNCHANGED <<con, outQ, hist>>
       ELSE /\ con' = [con EXCEPT !.write_buffer = <<>>]
            /\ IF ConsumerGone
               THEN /\ call' = [op |-> "flush", buf |-> <<>>, ret |-> Err("ConnectionReset")]
                    /\ hist' = [hist EXCEPT !.failed = TRUE]
                    /\ UNCHANGED outQ
               ELSE /\ call' = [op |-> "flush", buf |-> <<>>, ret |-> Ok(0)]
                    /\ outQ' = Append(outQ, con.write_buffer)
                    /\ hist' = [hist EXCEPT !.written = Append(@, NL)]
    /\ UNCHANGED <<fn, rd, lastRead, state, stateLock, tcpLock, mcpLock, sockOk, pc, step,
                   wid, wst, frame, pkt, text, err, player_name, inQ, wire, rcvd, stateHist,
                   nRecv, nLines>>

\* Connection::split: the write_buffer moves into the write half
split ==
    /\ ~con.split
    /\ rd.pc = "idle"
    /\ con' = [con EXCEPT !.split = TRUE]
    /\ UNCHANGED <<fn, call, rd, nb, hist, lastRead, state, stateLock, tcpLock, mcpLock, sockOk,
                   pc, step, wid, wst, frame, pkt, text, err, player_name, outQ, inQ, wire,
                   rcvd, stateHist, nRecv, nLines>>

\* Connection::read and ConnectionReadHalf::read are called with a buffer of
\* cap bytes: let mut buf = io::Cursor::new(buf)
read(cap) ==
    /\ rd.pc = "idle"
    /\ nb.reads < MaxReads
    /\ nb' = [nb EXCEPT !.reads = @ + 1]
    /\ rd' = [pc |-> "receive", cap |-> cap, cursor |-> <<>>, taken |-> <<>>, ret |-> NoRet]
    /\ UNCHANGED <<fn, con, call, hist, lastRead, state, stateLock, tcpLock, mcpLock, sockOk,
                   pc, step, wid, wst, frame, pkt, text, err, player_name, outQ, inQ, wire,
                   rcvd, stateHist, nRecv, nLines>>

\* writeln!(buf, "{msg}")?: the Cursor takes what fits, and write_all fails
\* with WriteZero once nothing more fits; read then returns the error
Writeln(msg, next) ==
    LET bytes == Append(msg, NL)
        room == rd.cap - Len(rd.cursor)
    IN  IF Len(bytes) <= room
        THEN rd' = [rd EXCEPT !.pc = next, !.cursor = @ \o bytes, !.taken = Append(@, msg)]
        ELSE rd' = [rd EXCEPT !.pc = "idle", !.cursor = @ \o SubSeq(bytes, 1, room),
                              !.taken = Append(@, msg), !.ret = Err("WriteZero")]

\* let msg = self.receive()?: blocks until a line is queued, or until the
\* queue is empty and its sender is gone
receive ==
    /\ rd.pc = "receive"
    /\ inQ # <<>> \/ ProducerGone
    /\ IF inQ # <<>>
       THEN /\ inQ' = Tail(inQ)
            /\ Writeln(Head(inQ), "try_receive")
       ELSE /\ rd' = [rd EXCEPT !.pc = "idle", !.ret = Err("ConnectionReset")]
            /\ UNCHANGED inQ
    /\ UNCHANGED <<fn, con, call, nb, hist, lastRead, state, stateLock, tcpLock, mcpLock, sockOk,
                   pc, step, wid, wst, frame, pkt, text, err, player_name, outQ, wire,
                   rcvd, stateHist, nRecv, nLines>>

\* while let Some(msg) = self.try_receive()? { writeln!(..)? }
\* Ok(buf.position() as usize); try_recv on an empty queue whose sender is
\* gone is Disconnected, and read returns the error
try_receive ==
    /\ rd.pc = "try_receive"
    /\ IF inQ = <<>>
       THEN /\ IF ProducerGone
               THEN /\ rd' = [rd EXCEPT !.pc = "idle", !.ret = Err("ConnectionReset")]
                    /\ UNCHANGED hist
               ELSE /\ rd' = [rd EXCEPT !.pc = "idle", !.ret = Ok(Len(rd.cursor))]
                    /\ hist' = [hist EXCEPT !.got = @ \o rd.cursor]
            /\ UNCHANGED inQ
       ELSE /\ inQ' = Tail(inQ)
            /\ Writeln(Head(inQ), "try_receive")
            /\ UNCHANGED hist
    /\ UNCHANGED <<fn, con, call, nb, lastRead, state, stateLock, tcpLock, mcpLock, sockOk,
                   pc, step, wid, wst, frame, pkt, text, err, player_name, outQ, wire,
                   rcvd, stateHist, nRecv, nLines>>

\* the peer of the inbound queue sends a line: chat_text_sender.send(..)
PeerSend ==
    /\ ~ProducerGone
    /\ nb.pushes < MaxPush
    /\ nb' = [nb EXCEPT !.pushes = @ + 1]
    /\ \E line \in PeerLines :
          /\ inQ' = Append(inQ, line)
          /\ hist' = [hist EXCEPT !.pushed = Append(@, line)]
    /\ UNCHANGED <<fn, con, call, rd, lastRead, state, stateLock, tcpLock, mcpLock, sockOk,
                   pc, step, wid, wst, frame, pkt, text, err, player_name, outQ, wire,
                   rcvd, stateHist, nRecv, nLines>>

\* a bridge over a pair of queues with no engine behind it (tests::McpDummy)
InitBridge ==
    /\ InitObjects
    /\ pc = [t \in Threads |-> "unborn"]
    /\ player_name = <<>>
    /\ fn = NoFn

NextWrite ==
    \/ \E buf \in WriteBufs : write(buf)
    \/ flush
    \/ split

SpecWrite == InitBridge /\ [][NextWrite]_vars

NextRead ==
    \/ \E cap \in ReadCaps : read(cap)
    \/ receive
    \/ try_receive
    \/ PeerSend

SpecRead == InitBridge /\ [][NextRead]_vars

\* a bridge whose queues lead to the two pumps, both running
InitPumped ==
    /\ InitObjects
    /\ pc = [t \in Threads |->
                CASE t = "main" -> "m_done" [] t = "in" -> "i_loop" [] t = "out" -> "o_loop"]
    /\ player_name = <<>>
    /\ fn = NoFn

\* the inbound pump's thread ends (play, `?` or return Err in its loop)
InExits ==
    /\ pc["in"] = "i_loop"
    /\ pc' = [pc EXCEPT !["in"] = "i_err"]
    /\ UNCHANGED <<fn, con, call, rd, nb, hist, lastRead, state, stateLock, tcpLock, mcpLock,
                   sockOk, step, wid, wst, frame, pkt, text, err, player_name, outQ, inQ,
                   wire, rcvd, stateHist, nRecv, nLines>>

\* the outbound pump's thread ends (play, `?` in its loop)
OutExits ==
    /\ pc["out"] = "o_loop"
    /\ pc' = [pc EXCEPT !["out"] = "o_err"]
    /\ UNCHANGED <<fn, con, call, rd, nb, hist, lastRead, state, stateLock, tcpLock, mcpLock,
                   sockOk, step, wid, wst, frame, pkt, text, err, player_name, outQ, inQ,
                   wire, rcvd, stateHist, nRecv, nLines>>

\* reads of a bridge whose producer may end
NextReadClosing == NextRead \/ InExits

SpecReadClosing == InitPumped /\ [][NextReadClosing]_vars

\* writes, flushes and reads of a bridge whose pumps may end
NextClosing == NextWrite \/ NextRead \/ InExits \/ OutExits

SpecClosing == InitPumped /\ [][NextClosing]_vars

\* ------------------------------------------------------------- specification
Next ==
    \/ \E t \in Threads : WLock(t)
    \/ \E t \in Threads : WPrefix(t)
    \/ \E t \in Threads : WBody(t)
    \/ \E t \in Threads : WFail(t)
    \/ \E t \in Threads : RLock(t)
    \/ \E t \in Threads : RFrame(t)
    \/ \E t \in Threads : RFail(t)
    \/ \E t \in Threads : RBadId(t)
    \/ \E t \in Threads : RDecode(t)
    \/ NameTooLong("main")
    \/ MainPlay
    \/ InLoop
    \/ InKaLock
    \/ InPush
    \/ OutRecv
    \/ OutClosed
    \/ OutLock
    \/ ChatSend
    \/ Release

Spec == Init /\ [][Next]_vars

\* the steps thread t takes by itself once they are possible: taking a free
\* lock, writing to a working socket, decoding, queue operations, and the
\* error every operation on a failed socket returns.  Not among them: the
\* arrival of a frame, which is up to the server.
ThreadStep(t) ==
    \/ WLock(t) \/ WPrefix(t) \/ WBody(t)
    \/ RLock(t) \/ RBadId(t) \/ RDecode(t)
    \/ ~sockOk /\ (WFail(t) \/ RFail(t))
    \/ t = "main" /\ (NameTooLong(t) \/ MainPlay)
    \/ t = "in" /\ (InLoop \/ InKaLock \/ InPush)
    \/ t = "out" /\ (OutRecv \/ OutClosed \/ OutLock)

\* every thread is scheduled; the server and the caller act as they please
SpecFair == Spec /\ \A t \in Threads : WF_vars(ThreadStep(t))

\* the TcpStream is dropped: it lives in the Mcp764 that the two pump closures
\* share, so it goes when both threads have ended
SocketClosed == PumpExited("in") /\ PumpExited("out")

\* ------------------------------------------------------------- packet functions
\* packet_id and state_changer applied to any packet in any state, as
\* write_packet applies them to the packet and state it is given

AllPackets ==
    {Handshake(s) : s \in State}
    \cup {KeepAliveSB(k) : k \in KeepAliveIds}
    \cup {LoginStart, LoginAcknowledged, FinishConfigurationSB, ClientInformation,
          ChatMessage(Hi), ChatCommand(<<"s", "a", "y">>), MessageAcknowledgment}

progVars == <<state, stateLock, tcpLock, mcpLock, sockOk, pc, step, wid, wst, frame,
              pkt, text, err, player_name, outQ, inQ, wire, rcvd, stateHist, lastRead,
              con, call, rd, nb, hist, nRecv, nLines>>

InitFn ==
    /\ InitProgram
    /\ fn \in {[packet |-> p, state |-> s, applied |-> FALSE, id |-> 0, next |-> s] :
                  p \in AllPackets, s \in State}

\* let change_state = packet.state_changer(); packet.packet_id(*state);
\* *state = change_state(*state)
FnApply ==
    /\ ~fn.applied
    /\ fn' = [fn EXCEPT !.applied = TRUE,
                        !.id = packet_id(fn.packet, fn.state),
                        !.next = state_changer(fn.packet, fn.state)]
    /\ UNCHANGED progVars

NextFn == FnApply

SpecFn == InitFn /\ [][NextFn]_vars

\* ------------------------------------------------------------- decoding
\* ClientBoundPacket::from applied to any id and payload in any state, as
\* read_packet applies it to the frame it has read

\* the ids of the modelled packets, an id modelled in no state, a negative one
DecodeIds == {0, 1, 2, 3, 27, 36, 55, 103, 4, 127, -2}
DecodePayloads ==
    {<<>>, <<FStr(Kicked)>>, <<FLong(1)>>, <<FBool(1)>>, PlayerChatPayload(Hi)}

InitFrom ==
    /\ state \in State
    /\ \E pid \in DecodeIds, payload \in DecodePayloads :
          frame = [t \in Threads |-> IF t = "main" THEN Frame(pid, payload) ELSE NoFrame]
    /\ step = [t \in Threads |-> IF t = "main" THEN "framed" ELSE "call"]
    /\ pc = [t \in Threads |-> "unborn"]
    /\ stateLock = None /\ tcpLock = None /\ mcpLock = None
    /\ sockOk = TRUE
    /\ wid = [t \in Threads |-> 0]
    /\ wst = [t \in Threads |-> Handshaking]
    /\ pkt = [t \in Threads |-> NoCB]
    /\ text = <<>>
    /\ err = [t \in Threads |-> NoErr]
    /\ player_name = <<>>
    /\ outQ = <<>> /\ inQ = <<>> /\ wire = <<>> /\ rcvd = {}
    /\ stateHist = <<state>>
    /\ lastRead = NoRead
    /\ fn = NoFn
    /\ con = NewConnection /\ call = NoCall /\ rd = NoReading
    /\ nb = [calls |-> 0, reads |-> 0, pushes |-> 0]
    /\ hist = [pushed |-> <<>>, got |-> <<>>, written |-> <<>>, failed |-> FALSE]
    /\ nRecv = 0 /\ nLines = 0

\* ClientBoundPacket::from(*self.state.lock(), packet_id, &payload)
FromApply ==
    /\ pc["main"] = "unborn" /\ step["main"] = "framed"
    /\ LET r == ClientBoundFrom(state, frame["main"].pid, frame["main"].payload)
       IN  /\ pkt' = [pkt EXCEPT !["main"] = r.pkt]
           /\ err' = [err EXCEPT !["main"] = IF r.ok THEN NoErr ELSE FormatError]
    /\ step' = [step EXCEPT !["main"] = "call"]
    /\ UNCHANGED <<fn, con, call, rd, nb, hist, lastRead, state, stateLock, tcpLock, mcpLock,
                   sockOk, pc, wid, wst, frame, text, player_name, outQ, inQ, wire, rcvd,
                   stateHist, nRecv, nLines>>

NextFrom == FromApply

SpecFrom == InitFrom /\ [][NextFrom]_vars

\* ------------------------------------------------------------- claims
Last(seq) == seq[Len(seq)]

\* the step writes one piece to the socket
Writes == wire' # wire
\* the step writes the body of a frame, which completes a send
Sends == Writes /\ Last(wire').part = "body"

BodiesBy(t) == SelectSeq(wire, LAMBDA x : x.part = "body" /\ x.by = t)
PiecesOf(type) == {i \in 1..Len(wire) : wire[i].pkt.type = type}

\* thread t has read a KeepAlive and has not yet written its reply
KaPending(t) == pc[t] \in {"m_cfgka", "i_ka_lock", "i_ka"}

\* C1: between reading a KeepAlive{id=X} and writing its reply, the only thing
\* written to the socket is the reply KeepAlive{id=X} of the thread that read it.
C1_KeepAliveFirst ==
    [][\A t \in Threads :
          (KaPending(t) /\ Writes)
             => (Last(wire').by = t /\ Last(wire').pkt = KeepAliveSB(pkt[t].id))]_vars

\* thread t is inside write_packet, between taking the state lock and returning
InWrite(t) == pc[t] \in WriteLabels /\ step[t] \in {"locked", "prefix"}

\* C2: the socket carries whole frames (a length prefix followed by the body of
\* the same packet from the same sender), at most one sender is inside
\* write_packet, and the state it computed the id from is still the state.
C2_FramesWhole ==
    /\ \A i \in 1..Len(wire) :
          IF i % 2 = 1
          THEN wire[i].part = "len"
          ELSE /\ wire[i].part = "body"
               /\ wire[i].by = wire[i - 1].by
               /\ wire[i].pkt = wire[i - 1].pkt
               /\ wire[i].pid = wire[i - 1].pid
    /\ Len(wire) % 2 = 1 =>
          \/ ~sockOk
          \/ \E t \in Threads : step[t] = "prefix" /\ pc[t] \in WriteLabels
                                  /\ Last(wire).by = t
    /\ Cardinality({t \in Threads : InWrite(t)}) <= 1
    /\ \A t \in Threads :
          InWrite(t) => (wst[t] = state /\ wid[t] = packet_id(PendingPacket(t), state))

\* the outbound pump holds a line and waits while the inbound pump is mid-frame
C2_Witness ==
    /\ InWrite("in")
    /\ step["in"] = "prefix"
    /\ Last(wire).part = "len"
    /\ pc["out"] = "o_lock"

connect_ok == pc["main"] \in {"m_play", "m_done", "m_dropped"}

\* the state the packets sent so far lead to
StateAfterSends ==
    IF \E i \in PiecesOf("FinishConfiguration") : wire[i].part = "body" THEN Play
    ELSE IF \E i \in PiecesOf("LoginAcknowledged") : wire[i].part = "body" THEN Configuration
    ELSE IF \E i \in PiecesOf("Handshake") : wire[i].part = "body" THEN Login
    ELSE Handshaking

\* C3: a successful connect has sent Handshake(Login), LoginStart,
\* LoginAcknowledged, KeepAlive*, ClientInformation, FinishConfiguration in this
\* order, the state went Handshaking, Login, Configuration, Play, each change at
\* the send named; LoginAcknowledged follows a received LoginSuccess and
\* ClientInformation / FinishConfiguration a received FinishConfiguration.
C3_ConnectSequence ==
    /\ connect_ok =>
          LET b == BodiesBy("main")
              n == Len(b)
          IN  /\ n >= 5
              /\ b[1].pkt = Handshake(Login)
              /\ b[2].pkt = LoginStart
              /\ b[3].pkt = LoginAcknowledged
              /\ \A i \in 4..(n - 2) : b[i].pkt.type = "KeepAlive"
              /\ b[n - 1].pkt = ClientInformation
              /\ b[n].pkt = FinishConfigurationSB
              /\ stateHist = <<Handshaking, Login, Configuration, Play>>
    /\ state = StateAfterSends
    /\ PiecesOf("LoginAcknowledged") # {} => "LoginSuccess" \in rcvd
    /\ PiecesOf("ClientInformation") \cup PiecesOf("FinishConfiguration") # {}
          => "FinishConfiguration" \in rcvd

\* connect returned Ok after answering one KeepAlive during configuration
C3_Witness == pc["main"] = "m_done" /\ Len(BodiesBy("main")) = 6

\* C4: every change of the state moves it strictly forward in
\* Handshaking < Login < Configuration < Play, and happens only in the step
\* that completes the send of a packet.
C4_NeverRegresses ==
    [][state' # state => (StateOrd(state') > StateOrd(state) /\ Sends)]_vars

\* all three changes happened and a pump has sent a packet since
C4_Witness ==
    /\ stateHist = <<Handshaking, Login, Configuration, Play>>
    /\ state = Play
    /\ Last(wire).part = "body" /\ Last(wire).by \in Pumps

\* C5: the send of LoginAcknowledged in Login leaves Configuration and the send
\* of FinishConfiguration in Configuration leaves Play.
C5_AckAndFinishAdvance ==
    [][Sends =>
          /\ (Last(wire').pkt = LoginAcknowledged /\ state = Login)
                => state' = Configuration
          /\ (Last(wire').pkt = FinishConfigurationSB /\ state = Configuration)
                => state' = Play]_vars

\* Play was reached after a KeepAlive exchange and an ignored packet
C5_Witness ==
    /\ state = Play
    /\ Len(BodiesBy("main")) = 6
    /\ nRecv = 4
    /\ pc["main"] = "m_play"

\* C6 as claimed: in every state s, LoginAcknowledged and FinishConfiguration
\* yield the phase that follows s.
C6_OnePhaseForward ==
    (fn.applied /\ fn.packet \in {LoginAcknowledged, FinishConfigurationSB})
       => StateOrd(fn.next) = StateOrd(fn.state) + 1

\* C6 amended: Handshake yields the state its caller chose; LoginAcknowledged
\* yields Configuration and FinishConfiguration yields Play whatever the
\* current state, one phase forward exactly from Login resp. Configuration.
C6_FixedTargets ==
    fn.applied =>
       /\ fn.packet.type = "Handshake" => fn.next = fn.packet.next
       /\ fn.packet = LoginAcknowledged => fn.next = Configuration
       /\ fn.packet = FinishConfigurationSB => fn.next = Play
       /\ (fn.packet = LoginAcknowledged /\ fn.state = Login)
             => StateOrd(fn.next) = StateOrd(fn.state) + 1
       /\ (fn.packet = FinishConfigurationSB /\ fn.state = Configuration)
             => StateOrd(fn.next) = StateOrd(fn.state) + 1

\* LoginAcknowledged applied in a state other than Login
C6_Witness == fn.applied /\ fn.packet = LoginAcknowledged /\ fn.state = Play

NonAdvancing ==
    {p \in AllPackets :
        p.type \notin {"Handshake", "LoginAcknowledged", "FinishConfiguration"}}

\* state_changer of a non-advancing packet is the identity
NonAdvancingKeepState == \A p \in NonAdvancing : \A s \in State : state_changer(p, s) = s

\* C7: once Play the state stays Play; every send of a packet other than
\* Handshake, LoginAcknowledged and FinishConfiguration leaves the state as it
\* was, in whatever state it is sent.
C7_PlayTerminal ==
    [][/\ state = Play => state' = Play
       /\ (Sends /\ Last(wire').pkt.type
                      \notin {"Handshake", "LoginAcknowledged", "FinishConfiguration"})
             => state' = state
       /\ NonAdvancingKeepState]_vars

\* in Play the outbound pump has sent a command, after ClientInformation was
\* sent in Configuration, and the state is still Play
C7_Witness ==
    /\ state = Play
    /\ \E i \in 1..Len(wire) : wire[i].part = "body" /\ wire[i].pkt.type = "ClientInformation"
    /\ Last(wire).part = "body" /\ Last(wire).by = "out"
    /\ Last(wire).pkt.type = "ChatCommand"

\* what read_packet makes of the frame thread t has read
Decoded(t) == ClientBoundFrom(state, frame[t].pid, frame[t].payload)

\* the step in which read_packet returns a packet of this type to thread t
Reads(t, type) ==
    /\ step[t] = "framed" /\ step'[t] = "call"
    /\ frame[t] # BadFrame
    /\ Decoded(t).ok
    /\ Decoded(t).pkt.type = type

\* e ends with the string s
EndsWith(e, s) ==
    /\ Len(e) >= Len(s)
    /\ SubSeq(e, Len(e) - Len(s) + 1, Len(e)) = s

\* C8: a thread that reads Disconnect, in Login, Configuration or Play, ends
\* with an error that carries the reason the server sent.
C8_DisconnectReason ==
    [][\A t \in Threads :
          Reads(t, "Disconnect")
             => /\ pc'[t] = ErrLabel(t)
                /\ err'[t] # NoErr
                /\ EndsWith(err'[t], Decoded(t).pkt.text)]_vars

\* the reply to LoginStart has been handled and was not LoginSuccess
LoginRejected ==
    /\ pc["main"] = "m_err"
    /\ nRecv = 1
    /\ "LoginSuccess" \notin rcvd

\* C9: while no LoginSuccess was received, LoginAcknowledged is not sent, the
\* state does not pass Login, configuration does not run and no pump exists;
\* a reply to LoginStart that is not LoginSuccess ends connect with an error.
C9_LoginRequired ==
    /\ []("LoginSuccess" \notin rcvd =>
             /\ PiecesOf("LoginAcknowledged") = {}
             /\ state \in {Handshaking, Login}
             /\ pc["main"] \in {"m_handshake", "m_loginstart", "m_readlogin", "m_err"}
             /\ pc["in"] = "unborn" /\ pc["out"] = "unborn"
             /\ nRecv <= 1)
    /\ [][(pc["main"] = "m_readlogin" /\ step["main"] = "framed"
             /\ step'["main"] = "call" /\ "LoginSuccess" \notin rcvd')
            => (pc'["main"] = "m_err" /\ err'["main"] # NoErr /\ state' = Login)]_vars
    /\ [](LoginRejected => (err["main"] # NoErr /\ state = Login))

\* connect failed on a Disconnect sent in reply to LoginStart
C9_Witness ==
    /\ LoginRejected
    /\ lastRead.type = "Disconnect"
    /\ err["main"] = LoginFailed

\* the read position a receiver returns to
ReadAgain(t) == IF t = "main" THEN "m_cfgread" ELSE "i_loop"

\* the step ignores the packet: no send, no chat line, no error, same state
Ignored(t) ==
    /\ pc'[t] = ReadAgain(t)
    /\ err'[t] = NoErr
    /\ wire' = wire
    /\ inQ' = inQ
    /\ state' = state

\* C10 as claimed: in every state a packet that decodes to Unknown is ignored.
C10_UnknownIgnored ==
    [][\A t \in Threads : Reads(t, "Unknown") => Ignored(t)]_vars

\* C10 amended: in the configuration loop and in the inbound pump a packet that
\* decodes to Unknown is ignored; as the reply to LoginStart it fails the login.
C10_UnknownIgnoredAfterLogin ==
    [][\A t \in Threads :
          Reads(t, "Unknown")
             => IF pc[t] = "m_readlogin"
                THEN /\ pc'[t] = "m_err" /\ err'[t] = LoginFailed
                     /\ wire' = wire /\ inQ' = inQ /\ state' = state
                ELSE Ignored(t)]_vars

\* the inbound pump has ignored an unknown packet in Play and is reading again
C10_Witness ==
    /\ lastRead = [by |-> "in", st |-> Play, type |-> "Unknown"]
    /\ pc["in"] = "i_read"
    /\ err["in"] = NoErr

\* the bodies of this packet type written so far
NbBodies(type) ==
    Cardinality({i \in 1..Len(wire) : wire[i].part = "body" /\ wire[i].pkt.type = type})

\* read_packet returns a packet to the configuration loop
CfgReads(type) == pc["main"] = "m_cfgread" /\ Reads("main", type)

\* what the configuration loop does in one step
ConfigureStep ==
    /\ CfgReads("KeepAlive")
         => /\ pc'["main"] = "m_cfgka"
            /\ pkt'["main"].id = Decoded("main").pkt.id
            /\ wire' = wire
    /\ pc["main"] = "m_cfgka"
         => /\ nRecv' = nRecv
            /\ Writes => /\ Last(wire').by = "main"
                         /\ Last(wire').pkt = KeepAliveSB(pkt["main"].id)
            /\ pc'["main"] \in {"m_cfgka", "m_cfgread", "m_err"}
            /\ pc'["main"] = "m_cfgread" => Sends
    /\ CfgReads("Disconnect")
         => (pc'["main"] = "m_err" /\ err'["main"] # NoErr /\ wire' = wire)
    /\ CfgReads("FinishConfiguration") => pc'["main"] = "m_clientinfo"
    /\ (\E type \in {"Unknown", "LoginSuccess", "PlayerChatMessage",
                       "SystemChatMessage"} : CfgReads(type))
         => (pc'["main"] = "m_cfgread" /\ err'["main"] = NoErr /\ wire' = wire)
    /\ (pc["main"] = "m_cfgread" /\ pc'["main"] = "m_clientinfo")
         => CfgReads("FinishConfiguration")
    /\ pc["main"] = "m_err"
         => (pc'["main"] = "m_err" /\ ~(Writes /\ Last(wire').by = "main"))

\* what connect has sent to end the configuration
ConfigureSent ==
    /\ NbBodies("ClientInformation") <= 1
    /\ NbBodies("FinishConfiguration") <= 1
    /\ NbBodies("FinishConfiguration") <= NbBodies("ClientInformation")
    /\ PiecesOf("ClientInformation") \cup PiecesOf("FinishConfiguration") # {}
          => /\ "FinishConfiguration" \in rcvd
             /\ pc["main"] \notin {"m_cfgread", "m_cfgka"}
    /\ connect_ok => /\ NbBodies("ClientInformation") = 1
                     /\ NbBodies("FinishConfiguration") = 1

\* C11: the configuration loop answers each KeepAlive{id} with KeepAlive{id}
\* before it reads again, ends with an error on Disconnect, skips every other
\* packet and leaves only on FinishConfiguration; ClientInformation and then
\* FinishConfiguration are sent at most once each (once each when connect
\* succeeds), only after the server's FinishConfiguration, and nothing is sent
\* once connect has failed.
C11_ConfigureLoop == [][ConfigureStep]_vars /\ []ConfigureSent

\* the loop answered KeepAlive{2}, skipped a packet and was ended by the server
C11_Witness ==
    /\ pc["main"] = "m_clientinfo"
    /\ nRecv = 4
    /\ rcvd = {"LoginSuccess", "KeepAlive", "FinishConfiguration"}
    /\ \E i \in 1..Len(wire) : wire[i].part = "body" /\ wire[i].pkt = KeepAliveSB(2)

Spawned(t) == pc[t] # "unborn"

\* C12: a pump exists only after connect returned its handle, and connect
\* returns it only in Play after LoginSuccess and FinishConfiguration were
\* received; a failed connect has an error and no pump.
C12_PumpsOnlyInPlay ==
    /\ (Spawned("in") \/ Spawned("out"))
          => /\ Spawned("in") /\ Spawned("out")
             /\ state = Play
             /\ pc["main"] \in {"m_done", "m_dropped"}
             /\ {"LoginSuccess", "FinishConfiguration"} \subseteq rcvd
             /\ NbBodies("FinishConfiguration") = 1
    /\ pc["main"] \in {"m_done", "m_dropped"}
          => (state = Play /\ Spawned("in") /\ Spawned("out"))
    /\ pc["main"] = "m_err"
          => (err["main"] # NoErr /\ ~Spawned("in") /\ ~Spawned("out"))
    /\ pc["main"] # "panic"

\* both pumps run: one waits for a packet, the other holds a line
C12_Witness ==
    /\ pc["in"] = "i_read" /\ step["in"] = "locked"
    /\ pc["out"] = "o_lock"
    /\ pc["main"] = "m_done"

\* what the inbound pump does with a chat packet in one step: it keeps the
\* text, reads nothing before it has pushed it, and pushes exactly it
InboundPushes ==
    /\ \A type \in {"PlayerChatMessage", "SystemChatMessage"} :
          Reads("in", type)
             => /\ pc'["in"] = "i_push"
                /\ pkt'["in"].text = Decoded("in").pkt.text
                /\ inQ' = inQ
    /\ pc["in"] = "i_push"
          => /\ nRecv' = nRecv
             /\ pc'["in"] # "i_push"
                   => \/ inQ' = Append(inQ, pkt["in"].text) /\ pc'["in"] = "i_loop"
                      \/ HandleDropped /\ inQ' = inQ /\ pc'["in"] = "i_err"
    /\ inQ' # inQ => pc["in"] = "i_push"

\* the pump's half of C13: one line per chat packet, in the order of arrival,
\* and none for any other packet
InboundPumpPushes == [][InboundPushes]_vars

\* the inbound pump has pushed a player's message and then the system's
InboundPumpPushed == inQ = <<Hi, Hello>> /\ pc["in"] = "i_loop"

\* the lines that bytes hold, each ended by a newline
LinesOf(bytes) == Complete(Split(bytes))

\* C13: the lines obtained by reading are the chat and system messages
\* received, in their order: what the reads have returned so far, the lines
\* the read under way has taken and the lines still queued make up the lines
\* pushed.
C13_ReadsEqualReceived ==
    LinesOf(hist.got) \o (IF rd.pc = "idle" THEN <<>> ELSE rd.taken) \o inQ = hist.pushed

RECURSIVE Join(_)
\* the lines, each followed by a newline
Join(lines) ==
    IF lines = <<>> THEN <<>> ELSE Append(Head(lines), NL) \o Join(Tail(lines))

\* the step in which a read returns to its caller
ReadReturns == rd.pc # "idle" /\ rd'.pc = "idle"

\* C17: a read waits while no line is queued; it returns Ok only after taking
\* at least one line, and then with every line that was queued, in FIFO order,
\* each followed by a newline, leaving the queue empty at the moment it returns.
C17_ReadBlocksThenDrains ==
    [][/\ (rd.pc = "receive" /\ inQ = <<>>) => rd'.pc = "receive"
       /\ rd'.taken # rd.taken /\ rd'.taken # <<>>
             => (inQ # <<>> /\ rd'.taken = Append(rd.taken, Head(inQ)))
       /\ ReadReturns
             => /\ rd'.ret.ok
                /\ rd'.taken # <<>>
                /\ inQ' = <<>>
                /\ rd'.cursor = Join(rd'.taken)
                /\ rd'.ret.n = Len(rd'.cursor)]_vars

\* the packet the claim names for a line
LineAsPacket(line) ==
    IF line # <<>> /\ line[1] = "/"
    THEN [type |-> "ChatCommand", id |-> 0, text |-> SubSeq(line, 2, Len(line)), next |-> ""]
    ELSE [type |-> "ChatMessage", id |-> 0, text |-> line, next |-> ""]

\* the text of a line's packet has room in a chat string
LineFits(line) == Len(LineAsPacket(line).text) < ChatLimit

\* the outbound pump holds a line it has taken from the queue
OutBusy == pc["out"] \in {"o_lock", "o_send"}

\* the outbound pump takes the head of the queue, only when it holds no line,
\* and whatever it writes is the packet of the line it holds
OutboundConverts ==
    /\ (~OutBusy /\ OutBusy')
          => (pc["out"] = "o_loop" /\ outQ # <<>> /\ text' = Head(outQ) /\ outQ' = Tail(outQ))
    /\ Len(outQ') < Len(outQ) => (~OutBusy /\ OutBusy')
    /\ OutBusy => (text' # text => ~OutBusy')
    /\ (Writes /\ Last(wire').by = "out")
          => (OutBusy /\ Last(wire').pkt = LineAsPacket(text) /\ Last(wire').pkt.id = 0)
    /\ (Writes /\ Last(wire').pkt.type \in {"ChatMessage", "ChatCommand"})
          => Last(wire').by = "out"

\* the outbound pump lets go of a line by completing the send of its packet
LineSent ==
    /\ pc'["out"] = "o_loop"
    /\ Sends
    /\ Last(wire').by = "out"
    /\ Last(wire').pkt = LineAsPacket(text)

WriteStep == nb'.calls = nb.calls + 1 /\ call'.op = "write"
FlushStep == nb'.calls = nb.calls + 1 /\ call'.op = "flush"

\* the lines the step puts on the outbound queue
Enqueued == SubSeq(outQ', Len(outQ) + 1, Len(outQ'))

NoNewline(s) == \A i \in 1..Len(s) : s[i] # NL

\* the write appends its bytes to the buffer, enqueues every complete line in
\* order without its newline and keeps the incomplete rest
WriteSplits ==
    /\ SubSeq(outQ', 1, Len(outQ)) = outQ
    /\ Join(Enqueued) \o con'.write_buffer = con.write_buffer \o call'.buf
    /\ NoNewline(con'.write_buffer)
    /\ \A i \in 1..Len(Enqueued) : NoNewline(Enqueued[i])
    /\ NoNewline(call'.buf) => Enqueued = <<>>

\* C15 as claimed: every write appends its bytes and enqueues the complete lines.
C15_WriteSplits == [][WriteStep => WriteSplits]_vars

\* C15 amended: a write whose bytes are valid UTF-8 appends them and enqueues
\* the complete lines; a write whose bytes are not valid UTF-8 returns
\* InvalidData and changes neither the buffer nor the queue.
C15_ValidWriteSplits ==
    [][WriteStep
         => IF Utf8Ok(call'.buf)
            THEN WriteSplits /\ call'.ret.ok
            ELSE outQ' = outQ /\ con' = con /\ call'.ret = Err("InvalidData")]_vars

\* 'a', newline, 'b', newline, 'c' was written after an 'a' without newline
C15_Witness ==
    /\ call.op = "write" /\ call.buf = <<"a", NL, "b", NL, "c">>
    /\ outQ = <<<<"a", "a">>, <<"b">>>>
    /\ con.write_buffer = <<"c">>

\* C16: a flush with a buffered partial line enqueues that line once and
\* empties the buffer; a flush with an empty buffer, hence a flush that follows
\* a flush, changes neither the queue nor the buffer.
C16_FlushOnce ==
    [][FlushStep
         => /\ call'.ret.ok
            /\ con'.split = con.split
            /\ IF con.write_buffer # <<>>
               THEN outQ' = Append(outQ, con.write_buffer) /\ con'.write_buffer = <<>>
               ELSE outQ' = outQ /\ con' = con
            /\ call.op = "flush" => (outQ' = outQ /\ con' = con)]_vars

\* two flushes in a row after a partial line: the line was enqueued once
C16_Witness ==
    /\ call.op = "flush" /\ nb.calls = 3
    /\ outQ = <<<<"a">>>>
    /\ con.write_buffer = <<>>

\* C18: once the caller has released every handle, both pumps leave their
\* loops and the socket is closed, whether or not the server sends anything.
C18_ReleaseShutsDown == HandleDropped ~> SocketClosed

\* a line whose packet text fits is in the outbound queue or in the pump's hands
LinePending(line) ==
    /\ LineFits(line)
    /\ \/ \E i \in 1..Len(outQ) : outQ[i] = line
       \/ OutBusy /\ text = line

\* the packet of the line is the last thing written to the socket
LineWritten(line) ==
    /\ wire # <<>>
    /\ Last(wire) = Piece("body", "out", LineAsPacket(line), packet_id(LineAsPacket(line), Play))

\* C19: in Play every line placed on the outbound queue is written to the
\* socket as its chat packet, unless the socket fails, whether or not the
\* server sends anything.
C19_LinesGoOut ==
    \A line \in Lines : LinePending(line) ~> (LineWritten(line) \/ ~sockOk)

\* thread t is inside read_packet
InRead(t) == pc[t] \in ReadLabels /\ step[t] \in {"locked", "framed"}

\* the step in which read_packet decodes the frame it has read
Decodes(t) == step[t] = "framed" /\ step'[t] = "call" /\ frame[t] # BadFrame

ReadSections ==
    \A t \in Threads :
        /\ InRead(t) => tcpLock = t
        /\ stateLock = t => InWrite(t)
        /\ Decodes(t)
              => /\ tcpLock = t /\ tcpLock' = None
                 /\ stateLock = None /\ stateLock' = None
                 /\ Decoded(t).ok
                       => lastRead' = [by |-> t, st |-> state, type |-> Decoded(t).pkt.type]

ToEnqueue(buf) == Complete(Split(con.write_buffer \o buf))

\* what a bridge call does on a queue whose other end is gone, resp. alive
ClosedQueueSteps ==
    /\ (rd.pc = "receive" /\ rd' # rd /\ inQ = <<>>)
          => /\ PumpExited("in")
             /\ rd' = [rd EXCEPT !.pc = "idle", !.ret = Err("ConnectionReset")]
    /\ (WriteStep /\ Utf8Ok(call'.buf) /\ ToEnqueue(call'.buf) # <<>>)
          => IF PumpExited("out")
             THEN call'.ret = Err("ConnectionReset") /\ outQ' = outQ
             ELSE call'.ret.ok /\ outQ' = outQ \o ToEnqueue(call'.buf)
    /\ (FlushStep /\ con.write_buffer # <<>>)
          => IF PumpExited("out")
             THEN call'.ret = Err("ConnectionReset") /\ outQ' = outQ
             ELSE call'.ret.ok /\ outQ' = Append(outQ, con.write_buffer)

\* a call that is due can be made: a write or flush at any time, a waiting
\* read once the producer is gone
NeverBlocks ==
    /\ (nb.calls < MaxCalls /\ Exclusive)
          => (ENABLED flush /\ \A buf \in WriteBufs : ENABLED write(buf))
    /\ (rd.pc = "receive" /\ inQ = <<>> /\ PumpExited("in")) => ENABLED receive

\* C21: a read waiting on the empty inbound queue returns ConnectionReset once
\* the inbound pump has ended (and returns nothing before); a write with a
\* complete line to enqueue and a flush of a non-empty buffer return
\* ConnectionReset once the outbound pump has ended; while the outbound pump
\* is alive they succeed and enqueue, and they never wait.
C21_ClosedQueues == [][ClosedQueueSteps]_vars /\ []NeverBlocks

\* a read has failed on the closed empty queue without having taken a line,
\* and a flush of a buffered line has failed on the closed outbound queue
C21_Witness ==
    /\ PumpExited("in") /\ PumpExited("out")
    /\ rd.pc = "idle" /\ rd.ret = Err("ConnectionReset") /\ rd.taken = <<>>
    /\ call.op = "flush" /\ call.ret = Err("ConnectionReset")

\* the other pump
Other(t) == IF t = "in" THEN "out" ELSE "in"

\* a pump that has ended does nothing more and holds nothing
Stopped(t) ==
    /\ pc'[t] = pc[t] /\ step'[t] = step[t] /\ err'[t] = err[t]
    /\ frame'[t] = frame[t] /\ pkt'[t] = pkt[t]
    /\ Writes => Last(wire').by # t
    /\ mcpLock # t /\ tcpLock # t /\ stateLock # t
    /\ t = "in" => inQ' = inQ
    /\ t = "out" => (outQ' = outQ /\ text' = text)

\* the first failure of a pump ends it, and ends only it
PumpStops ==
    /\ \A t \in Pumps :
          /\ PumpExited(t) => Stopped(t)
          /\ err'[t] # err[t] => (~PumpExited(t) /\ pc'[t] = ErrLabel(t))
          /\ (~PumpExited(t) /\ pc'[t] = ErrLabel(t))
                => (pc'[Other(t)] = pc[Other(t)] /\ step'[Other(t)] = step[Other(t)])
          /\ (sockOk' # sockOk /\ pc'[t] # pc[t])
                => (pc'[t] = ErrLabel(t) /\ err'[t] = IoErr)
          /\ (~sockOk /\ (wire' # wire \/ nRecv' # nRecv)) => FALSE
    /\ (step["in"] = "framed" /\ step'["in"] = "call"
           /\ (frame["in"] = BadFrame \/ ~Decoded("in").ok))
          => (pc'["in"] = "i_err" /\ err'["in"] = FormatError)
    /\ Reads("in", "Disconnect")
          => (pc'["in"] = "i_err" /\ err'["in"] = Disconnected(Decoded("in").pkt.text))
    /\ (pc["out"] = "o_loop" /\ pc'["out"] # "o_loop" /\ outQ = <<>>)
          => (pc'["out"] = "o_err" /\ err'["out"] = ChannelClosed)

\* C22: a pump ends at its first failure (socket error, decode error,
\* Disconnect; send failure, closed outbound queue) and from then on reads,
\* sends, pushes and takes nothing; the step that ends one pump leaves the
\* other where it is, and an ended pump holds no lock.
C22_PumpsStopAtFirstFailure == [][PumpStops]_vars

\* the inbound pump has ended on a Disconnect, and the outbound pump is in the
\* middle of sending a line
C22_Witness ==
    /\ pc["in"] = "i_err" /\ err["in"] = Disconnected(Kicked)
    /\ pc["out"] = "o_send" /\ step["out"] = "prefix"
    /\ sockOk

\* the (state, id) pairs ClientBoundPacket::from has an arm for
Modelled ==
    {<<Login, 0>>, <<Login, 2>>, <<Configuration, 1>>, <<Configuration, 2>>,
     <<Configuration, 3>>, <<Play, 27>>, <<Play, 36>>, <<Play, 55>>, <<Play, 103>>}

\* from was applied to the frame
Decoded1 == pc["main"] = "unborn" /\ step["main"] = "call" /\ frame["main"] # NoFrame

\* C23: in every state, an id that has no arm for that state decodes to
\* Unknown with that id and not to an error, whatever the payload; id 0x02 is
\* LoginSuccess in Login and FinishConfiguration in Configuration.
C23_DecodeTotal ==
    Decoded1 =>
        /\ <<state, frame["main"].pid>> \notin Modelled
              => /\ err["main"] = NoErr
                 /\ pkt["main"] = CB("Unknown", frame["main"].pid, 0, <<>>)
        /\ (state = Login /\ frame["main"].pid = 2) => pkt["main"].type = "LoginSuccess"
        /\ (state = Configuration /\ frame["main"].pid = 2)
              => pkt["main"].type = "FinishConfiguration"
        /\ <<state, frame["main"].pid>> \in Modelled
              => (err["main"] = NoErr => pkt["main"].type # "Unknown")

\* the id of LoginSuccess, with a payload, was decoded in Play
C23_Witness ==
    /\ Decoded1
    /\ state = Play /\ frame["main"] = Frame(2, <<FStr(Kicked)>>)
    /\ pkt["main"] = CB("Unknown", 2, 0, <<>>)

\* the id on a piece written to the socket is the id of its packet in the
\* state held while it is written, and a KeepAlive reply has the id of its phase
IdOfState ==
    Writes =>
        LET x == Last(wire')
        IN  /\ x.pid = packet_id(x.pkt, state)
            /\ (x.pkt.type = "KeepAlive" /\ x.by = "main") => (state = Configuration /\ x.pid = 3)
            /\ (x.pkt.type = "KeepAlive" /\ x.by = "in") => (state = Play /\ x.pid = 20)
            /\ x.pkt.type = "KeepAlive" => x.by \in {"main", "in"}

\* C24: every frame written carries packet_id(variant, state at the time of
\* writing); the KeepAlive replies of the configuration loop carry 0x03, those
\* of the inbound pump in Play 0x14.
C24_IdByVariantAndState ==
    /\ [][IdOfState]_vars
    /\ [](\A i \in 1..Len(wire) :
            wire[i].pkt.type = "KeepAlive"
               => wire[i].pid = (IF wire[i].by = "main" THEN 3 ELSE 20))

\* a KeepAlive was answered in the configuration loop and another in Play
C24_Witness ==
    /\ \E i \in 1..Len(wire) : wire[i] = Piece("body", "main", KeepAliveSB(2), 3)
    /\ Last(wire) = Piece("body", "in", KeepAliveSB(1), 20)

\* the limit of the bounded string a packet of this type carries
LimitOf(type) ==
    CASE type \in {"ChatMessage", "ChatCommand", "PlayerChatMessage"} -> ChatLimit
      [] type \in {"Disconnect", "SystemChatMessage"} -> TextLimit
      [] type = "ClientInformation" -> LocaleLimit
      [] OTHER -> 1

\* every bounded string in a packet written, being written, or returned by
\* read_packet is shorter than its limit
StringsBounded ==
    /\ \A i \in 1..Len(wire) :
          /\ Len(wire[i].pkt.text) < LimitOf(wire[i].pkt.type)
          /\ wire[i].pkt.type = "LoginStart" => Len(player_name) < NameLimit
    /\ \A t \in Threads :
          /\ InWrite(t) => Len(PendingPacket(t).text) < LimitOf(PendingPacket(t).type)
          /\ Len(pkt[t].text) < LimitOf(pkt[t].type)

\* the step in which connect constructs the name, resp. the outbound pump the
\* message or command
NameBuilt == pc["main"] = "m_loginstart" /\ step["main"] = "call" /\ step' # step
NameRefused == pc["main"] = "m_loginstart" /\ step["main"] = "call" /\ pc'["main"] = "m_err"
TextBuilt == pc["out"] = "o_lock" /\ pc'["out"] = "o_send"
TextRefused == pc["out"] = "o_lock" /\ pc'["out"] = "o_err"

\* a construction succeeds exactly below the limit, fails with a validation
\* error from the limit on, and a packet returned by read_packet has passed it
BoundaryExact ==
    /\ NameBuilt => Len(player_name) <= NameLimit - 1
    /\ NameRefused => (Len(player_name) >= NameLimit /\ err'["main"] = ValidationError)
    /\ (pc["main"] = "m_loginstart" /\ step["main"] = "call")
          => IF Len(player_name) <= NameLimit - 1
             THEN ~ENABLED NameTooLong("main")
             ELSE ~ENABLED WLock("main")
    /\ TextBuilt => Len(OutText(text)) <= ChatLimit - 1
    /\ TextRefused => (Len(OutText(text)) >= ChatLimit /\ err'["out"] = ValidationError)
    /\ \A t \in Threads :
          (step[t] = "framed" /\ step'[t] = "call" /\ frame[t] # BadFrame /\ Decoded(t).ok)
             => Len(Decoded(t).pkt.text) < LimitOf(Decoded(t).pkt.type)

\* C25: a bounded string with limit N is constructed for length N - 1 and
\* refused with a validation error for length N and above; every bounded
\* string in a packet, the fixed locale of ClientInformation included, is
\* shorter than its limit.
C25_BoundedByConstruction == [][BoundaryExact]_vars /\ []StringsBounded

\* LoginStart went out with a name of 15 bytes, and ClientInformation with its
\* locale
C25_Witness ==
    /\ Len(player_name) = NameLimit - 1
    /\ \E i \in 1..Len(wire) : wire[i].part = "body" /\ wire[i].pkt.type = "LoginStart"
    /\ \E i \in 1..Len(wire) : wire[i].part = "body" /\ wire[i].pkt = ClientInformation

\* thread t holds the state lock inside write_packet and waits for the socket lock
WaitsForSocket(t) == pc[t] \in WriteLabels /\ step[t] = "locked" /\ stateLock = t
\* thread t holds the socket lock inside read_packet and waits for the state lock
WaitsForState(t) == pc[t] \in ReadLabels /\ step[t] = "framed" /\ tcpLock = t

\* thread t is inside read_packet or write_packet
InPacketCall(t) == pc[t] \in ReadLabels \cup WriteLabels /\ step[t] # "call"

\* C26: no state has one thread holding the state lock and waiting for the
\* socket lock while another holds the socket lock and waits for the state
\* lock: a pump is inside read_packet or write_packet only while it holds the
\* connection-wide lock, so at most one thread is inside either.
C26_NoLockCycle ==
    /\ \A t, u \in Threads :
          ~(WaitsForSocket(t) /\ tcpLock = u /\ WaitsForState(u) /\ stateLock = t)
    /\ \A t \in Pumps : pc[t] \in {"i_read", "i_ka", "o_send"} => mcpLock = t
    /\ \A t, u \in Threads : (InPacketCall(t) /\ InPacketCall(u)) => t = u
    /\ \A t \in Threads : WaitsForSocket(t) => tcpLock = None
    /\ \A t \in Threads : WaitsForState(t) => stateLock = None

\* the inbound pump holds the socket lock and is about to take the state
\* lock, while the outbound pump has a line and waits for the connection-wide lock
C26_Witness ==
    /\ WaitsForState("in") /\ mcpLock = "in"
    /\ pc["out"] = "o_lock" /\ text = Hi

\* the packets whose id is unimplemented!() outside Configuration and Play
StateBound == {"KeepAlive", "ClientInformation"}

\* C27: no thread panics in packet_id: whenever a thread is about to send or
\* is sending a KeepAlive or ClientInformation, and whenever one was written,
\* the state is Configuration or Play and the id is defined.
C27_NoUnimplemented ==
    /\ \A t \in Threads :
          /\ pc[t] # "panic"
          /\ (pc[t] \in WriteLabels /\ PendingPacket(t).type \in StateBound)
                => /\ state \in {Configuration, Play}
                   /\ packet_id(PendingPacket(t), state) # Unimplemented
    /\ \A i \in 1..Len(wire) : wire[i].pid # Unimplemented

\* the inbound pump is about to resolve the id of a KeepAlive reply in Play,
\* after ClientInformation went out in Configuration
C27_Witness ==
    /\ pc["in"] = "i_ka" /\ step["in"] = "call" /\ state = Play
    /\ \E i \in 1..Len(wire) : wire[i] = Piece("body", "main", ClientInformation, 0)

\* the outbound pump holds a line of 256 or more bytes, or a command whose
\* remainder has 256 or more
OverLong == pc["out"] = "o_lock" /\ Len(OutText(text)) >= ChatLimit

\* the outbound pump has ended on an over-long line
EndedOverLong == pc["out"] = "o_err" /\ err["out"] = ValidationError

\* what happens to an over-long line, and after it
OverLongSteps ==
    /\ (OverLong /\ pc'["out"] # pc["out"])
          => /\ pc'["out"] = "o_err" /\ err'["out"] = ValidationError
             /\ wire' = wire /\ outQ' = outQ
             /\ mcpLock' = mcpLock /\ stateLock' = stateLock /\ tcpLock' = tcpLock
             /\ pc'["in"] = pc["in"] /\ step'["in"] = step["in"]
    /\ EndedOverLong
          => /\ pc'["out"] = pc["out"] /\ outQ' = outQ
             /\ Writes => Last(wire').by # "out"
             /\ err'["main"] # err["main"] => err'["main"] = ConnectionReset
             /\ nLines' = nLines

SameEffect ==
    (WriteStep /\ call'.ret.ok)
       => /\ outQ' = outQ \o ToEnqueue(call'.buf)
          /\ con'.write_buffer = Leftover(Split(con.write_buffer \o call'.buf))

\* C29: Connection and ConnectionWriteHalf enqueue the same lines, keep the
\* same buffer and return the same results; a successful write returns the
\* number of bytes it was passed, also when a partial line was buffered.
C29_SameBridge ==
    [][/\ SameEffect
       /\ (WriteStep /\ call'.ret.ok) => call'.ret.n = Len(call'.buf)
       /\ FlushStep => call'.ret = Ok(0)]_vars

\* a write by a ConnectionWriteHalf: it returns the number of bytes passed
WriteHalfCounts ==
    [][(WriteStep /\ call'.ret.ok /\ con.split) => call'.ret.n = Len(call'.buf)]_vars

\* a write by a Connection: it returns the bytes passed plus those buffered before
ConnectionCounts ==
    [][(WriteStep /\ call'.ret.ok /\ ~con.split)
          => call'.ret.n = Len(con.write_buffer) + Len(call'.buf)]_vars

\* a read returns every line it took off the queue, each followed by a newline
ReturnsWhatItTook ==
    ReadReturns
       => (rd'.taken # <<>>
             => /\ rd'.ret = Ok(Len(Join(rd'.taken)))
                /\ rd'.cursor = Join(rd'.taken)
                /\ hist'.got = hist.got \o Join(rd'.taken))

\* C30: every line a read removes from the inbound queue is in the bytes the
\* read returns, followed by a newline, also when the buffer is too small for
\* the queued lines and when the inbound pump ends while the read is draining.
C30_ReadsLoseNoLine == [][ReturnsWhatItTook]_vars

\* the same for reads whose buffer had room for every line they took
ReadWithRoomLosesNoLine ==
    [][(ReadReturns /\ Len(Join(rd'.taken)) <= rd.cap) => ReturnsWhatItTook]_vars

\* the same for reads that return while the inbound pump is running
ReadFromLivePumpLosesNoLine ==
    [][(ReadReturns /\ ~ProducerGone) => ReturnsWhatItTook]_vars

\* the same for reads with room that return while the inbound pump is running
ReadWithRoomFromLivePumpLosesNoLine ==
    [][(ReadReturns /\ ~ProducerGone /\ Len(Join(rd'.taken)) <= rd.cap)
          => ReturnsWhatItTook]_vars

\* the queue and the buffer account for the bytes written: neither a queued
\* line nor the buffer holds a newline, and the queued lines, each followed by
\* a newline, followed by the buffer, are the bytes the writes have taken in
\* order, with a newline for each flush that sent a line
BufferAccounts ==
    /\ NoNewline(con.write_buffer)
    /\ \A i \in 1..Len(outQ) : NoNewline(outQ[i])
    /\ Join(outQ) \o con.write_buffer = hist.written

\* C31: as long as every write and flush so far has succeeded, the buffer
\* holds no newline, no enqueued line holds a newline, and the enqueued lines,
\* each ended by a newline, followed by the buffer, are exactly the bytes
\* written so far, a flush of a non-empty buffer counting as a line break; no
\* byte written is dropped or duplicated.
C31_BufferInvariant == ~hist.failed => BufferAccounts

\* 'a', then 'a', newline, 'b', newline, 'c', then a flush: three lines are
\* queued, the buffer is empty and every call has succeeded
C31_Witness ==
    /\ ~hist.failed
    /\ call.op = "flush" /\ nb.calls = 3
    /\ hist.written = <<"a", "a", NL, "b", NL, "c", NL>>
    /\ outQ = <<<<"a", "a">>, <<"b">>, <<"c">>>>
    /\ con.write_buffer = <<>>

\* the same whether or not a write or flush has failed
BufferAccountsAlways == BufferAccounts

====
